---- MODULE Spec2Model ----
(***************************************************************************)
(* Model of the Ollama-OCR portable packaging scripts:                     *)
(*   portable/build_portable_windows.py  (the build pipeline),             *)
(*   portable/portable_launcher.py       (the run-time launcher),          *)
(*   src/briefcase/platforms/windows/msi/create.py (batch-file writer),    *)
(* and of the batch scripts the two writers generate.                      *)
(*                                                                         *)
(* A path is a sequence of components.  A file system is a function from   *)
(* the paths that exist to "dir" (a directory) or to a content tag (a      *)
(* regular file).                                                          *)
(***************************************************************************)
EXTENDS Naturals, Integers, Sequences, FiniteSets, TLC

VARIABLES
    \* ---- build pipeline (build_portable_windows.py) ----
    fs,          \* the file system seen by the build script
    pc,          \* position of build(): the step that runs next
    importable,  \* whether "import PyInstaller" succeeds
    iconArg,     \* the icon argument of build(): None or a string
    command,     \* the command vector built by _pyinstaller_command
    archive,     \* the entries written to the zip archive, in order
    result,      \* the value build() returned, or None
    error,       \* the exception that left build(), or None
    trace,       \* the steps build() has started, in order
    procs,       \* the subprocesses build() ran: tool and exit code
    fs0,         \* the file system when build() was entered
    \* ---- launcher (portable_launcher.py) ----
    lpc,         \* position of the launcher process
    frozen,      \* getattr(sys, "frozen", False)
    meipass,     \* sys._MEIPASS, or NoPath when the attribute is absent
    lfs,         \* the regular files that exist around the launcher
    env,         \* the process environment: variable -> value or Undefined
    callerEnv,   \* the environment the caller started the launcher with
    bundleDir,   \* BUNDLE_DIR
    logPath,     \* LOG_PATH
    logLines,    \* the records written to the log file
    appPath,     \* the application script _locate_streamlit_app returned
    runnerCalls, \* the runner subprocesses started: command, env, cwd
    exc,         \* the exception in flight, or None
    raisedAt,    \* the launcher position that raised exc
    caught,      \* how many times the top-level handler caught
    stderrOut,   \* what the launcher printed on the terminal
    exitStatus,  \* the exit status of the launcher process, or None
    \* ---- launcher batch script under cmd.exe ----
    script,      \* the batch script being executed
    scriptKind,  \* which writer produced it
    bargs,       \* the arguments the script was started with 
    bpc,         \* index of the next command of the script
    bdirs,       \* directories that exist next to the script
    exeRuns,     \* the executable invocations made: arguments, redirect
    exeExit,     \* the exit code the executable will return
    errorlevel,  \* cmd's ERRORLEVEL
    exitCodeVar, \* the script variable EXIT_CODE, or None
    paused,      \* whether the script executed "pause"
    console      \* lines the script printed on the console

buildVars == <<fs, pc, importable, iconArg, command, archive, result, error,
               trace, procs, fs0>>
launcherVars == <<lpc, frozen, meipass, lfs, env, callerEnv, bundleDir,
                  logPath, logLines, appPath, runnerCalls, exc, raisedAt,
                  caught, stderrOut, exitStatus>>
batchVars == <<script, scriptKind, bargs, bpc, bdirs, exeRuns, exeExit,
               errorlevel, exitCodeVar, paused, console>>
vars == <<buildVars, launcherVars, batchVars>>

None == "None"
\* an optional number: <<>> when there is none yet, <<n>> otherwise
NoNumber == <<>>
Some(n) == <<n>>

(***************************************************************************)
(* Paths (pathlib.Path)                                                    *)
(***************************************************************************)
Join(p, name) == Append(p, name)
Parent(p) == SubSeq(p, 1, Len(p) - 1)
IsUnder(p, base) ==
    /\ Len(p) > Len(base)
    /\ SubSeq(p, 1, Len(base)) = base
RelativeTo(p, base) == SubSeq(p, Len(base) + 1, Len(p))
NoPath == <<>>

(***************************************************************************)
(* File-system primitives used by the scripts                              *)
(***************************************************************************)
Exists(f, p) == p \in DOMAIN f
IsDir(f, p) == Exists(f, p) /\ f[p] = "dir"
IsFile(f, p) == Exists(f, p) /\ f[p] # "dir"
Below(f, p) == {q \in DOMAIN f : IsUnder(q, p)}
Remove(f, ps) == [q \in DOMAIN f \ ps |-> f[q]]
\* shutil.rmtree(p) on a directory: p and everything below it is gone
RmTree(f, p) == Remove(f, {p} \cup Below(f, p))
\* Path.write_text / shutil.copy2: create or overwrite one regular file
WriteFile(f, p, tag) == (p :> tag) @@ f
\* shutil.copytree(src, dst): the tree below src appears below dst
CopyTree(f, src, dst) ==
    LET moved == {src} \cup Below(f, src)
        target(q) == dst \o RelativeTo(q, src)
    IN [t \in {target(q) : q \in moved} |->
            f[CHOOSE q \in moved : target(q) = t]] @@ f

(***************************************************************************)
(* build_portable_windows.py: module constants                             *)
(***************************************************************************)
PROJECT_ROOT == <<"repo">>
PORTABLE_DIR == <<"repo", "portable">>
DIST_NAME == "Ollama-OCR"
ZIP_NAME == DIST_NAME \o "-portable.zip"

dist_path == Join(PORTABLE_DIR, "dist")
build_path == Join(PORTABLE_DIR, "build")
zip_path == Join(PROJECT_ROOT, ZIP_NAME)
dist_folder == Join(dist_path, DIST_NAME)
launcher_path == Join(PORTABLE_DIR, "portable_launcher.py")
app_dir == PROJECT_ROOT \o <<"src", "ollama_ocr">>
logo_path == Join(PROJECT_ROOT, "logo_file.jpg")

(***************************************************************************)
(* _clean_previous_build                                                   *)
(***************************************************************************)
Outcome(f, e) == [fs |-> f, raised |-> e]

\* faulty variant: the directory is removed without the exists() test
RmTreeUnguarded(f, p) ==
    IF IsDir(f, p) THEN Outcome(RmTree(f, p), None)
    ELSE IF Exists(f, p) THEN Outcome(f, "NotADirectoryError")
    ELSE Outcome(f, "FileNotFoundError")

\* "if path.exists(): shutil.rmtree(path)"; rmtree of a regular file raises
RmTreeIfExists(f, p) ==
    IF ~Exists(f, p) THEN Outcome(f, None)
    ELSE IF IsDir(f, p) THEN Outcome(RmTree(f, p), None)
    ELSE Outcome(f, "NotADirectoryError")

\* "if zip_path.exists(): zip_path.unlink()"; unlink of a directory raises
UnlinkIfExists(f, p) ==
    IF ~Exists(f, p) THEN Outcome(f, None)
    ELSE IF IsFile(f, p) THEN Outcome(Remove(f, {p}), None)
    ELSE Outcome(f, "PermissionError")

CleanPreviousBuild(f, dist, build, zip) ==
    LET r1 == RmTreeIfExists(f, dist)
        r2 == RmTreeIfExists(r1.fs, build)
        r3 == UnlinkIfExists(r2.fs, zip)
    IN  IF r1.raised # None THEN r1
        ELSE IF r2.raised # None THEN r2
        ELSE r3

(***************************************************************************)
(* _pyinstaller_command                                                    *)
(* A token is text, followed by a rendered path (if any), followed by      *)
(* os.pathsep and a destination folder name (if any).                      *)
(***************************************************************************)
Tok(text, path, dest) == [text |-> text, path |-> path, dest |-> dest]
Lit(text) == Tok(text, NoPath, "")
PathTok(path) == Tok("", path, "")
SysExecutable == Lit("sys.executable")

\* faulty variant: the icon flag is added whenever an icon path is given
IconTokensNoExistsTest(f, icon_path) ==
    IF icon_path # NoPath
    THEN <<Lit("--icon"), PathTok(icon_path)>>
    ELSE <<>>

\* "if icon_path and icon_path.exists(): command.extend([...])"
IconTokens(f, icon_path) ==
    IF icon_path # NoPath /\ Exists(f, icon_path)
    THEN <<Lit("--icon"), PathTok(icon_path)>>
    ELSE <<>>

AddData == Tok("", app_dir, "app")

PyinstallerCommand(f, dist, build, icon_path) ==
    <<SysExecutable, Lit("-m"), Lit("PyInstaller"), Lit("--noconfirm"),
      Lit("--clean"), Tok("--distpath=", dist, ""),
      Tok("--workpath=", build, ""), Lit("--name"), Lit(DIST_NAME),
      Lit("--add-data"), AddData,
      Lit("--hidden-import"), Lit("streamlit.web.bootstrap"),
      Lit("--hidden-import"),
      Lit("streamlit.runtime.scriptrunner.magic_funcs")>>
    \o IconTokens(f, icon_path)
    \o <<PathTok(launcher_path)>>

\* build(): "Path(icon) if icon else None"
IconPathOf(icon) ==
    IF icon = None \/ icon = "" THEN NoPath ELSE <<icon>>

(***************************************************************************)
(* _write_portable_readme, _write_launcher_batch, _copy_support_files      *)
(***************************************************************************)
WritePortableReadme(f, folder) ==
    WriteFile(f, Join(folder, "README_portable.txt"), "readme")

WriteLauncherBatchFile(f, folder) ==
    WriteFile(f, Join(folder, "Start Ollama OCR.bat"), "batch")

CopySupportFile(f, folder, file_path) ==
    IF ~Exists(f, file_path) THEN f
    ELSE LET target == Join(folder, file_path[Len(file_path)])
         IN  IF IsDir(f, file_path)
             THEN CopyTree(IF Exists(f, target) THEN RmTree(f, target) ELSE f,
                           file_path, target)
             ELSE WriteFile(f, target, f[file_path])

(***************************************************************************)
(* _create_zip                                                             *)
(***************************************************************************)
\* the paths dist_folder.rglob("*") yields: everything below the folder,
\* directories as well as regular files
RGlob(f, folder) == Below(f, folder)

RECURSIVE SeqOf(_)
SeqOf(S) ==
    IF S = {} THEN <<>>
    ELSE LET x == CHOOSE y \in S : TRUE IN <<x>> \o SeqOf(S \ {x})

\* faulty variant: entry names are relative to the bundle folder itself
ArcNameInsideFolder(file, folder) == RelativeTo(file, folder)

\* "file.relative_to(dist_folder.parent)"
ArcName(file, folder) == RelativeTo(file, Parent(folder))

\* archive.write(file, arcname): a directory is written as a directory entry
ZipEntry(f, file, folder) ==
    [name |-> ArcName(file, folder), isdir |-> IsDir(f, file)]

CreateZip(f, folder) ==
    SeqOf({ZipEntry(f, file, folder) : file \in RGlob(f, folder)})

(***************************************************************************)
(* The world the build runs in                                             *)
(***************************************************************************)
Empty == [q \in {} |-> "dir"]
Dirs(ps) == [q \in ps |-> "dir"]

BaseTree == Dirs({PROJECT_ROOT, PORTABLE_DIR})
IconArgs == {None, "", "missing.ico", "app.ico"}
IconFiles == {Empty, <<"app.ico">> :> "icon"}
StaleDist ==
    {Empty,
     dist_path :> "stale",
     Dirs({dist_path}),
     Dirs({dist_path, dist_folder})
        @@ (Join(dist_folder, "old.dll") :> "stale")
        @@ (Join(dist_folder, "Start Ollama OCR.bat") :> "batch")}
StaleBuild ==
    {Empty,
     Dirs({build_path}) @@ (Join(build_path, "old.toc") :> "stale")}
StaleZip == {Empty, zip_path :> "zip", Dirs({zip_path})}
LogoFiles ==
    {Empty,
     logo_path :> "logo",
     Dirs({logo_path}) @@ (Join(logo_path, "logo.png") :> "logo")}

InitialFileSystems ==
    {BaseTree @@ i @@ d @@ b @@ z @@ l :
        i \in IconFiles, d \in StaleDist, b \in StaleBuild,
        z \in StaleZip, l \in LogoFiles}

\* what the packaging tool leaves behind when it exits 0: the work
\* directory, the bundle folder with the executable, and the application
\* directory embedded under the folder name of the --add-data mapping,
\* either at the top of the bundle or under _internal
ExePath == Join(dist_folder, DIST_NAME \o ".exe")
BundleData(root) ==
    Dirs({root, Join(root, AddData.dest)})
        @@ (root \o <<AddData.dest, "app.py">> :> "app")
PackagingOutputs ==
    {Dirs({dist_path, dist_folder, build_path}) @@ (ExePath :> "exe") @@ d :
        d \in {BundleData(dist_folder),
               BundleData(Join(dist_folder, "_internal"))}}
\* what it may leave behind when it exits non-zero
FailedPackagingOutputs == {Empty, Dirs({build_path})}

ExitCodes == {0, 1}

StepOrder ==
    <<"ensure", "clean", "command", "execute", "readme", "batch", "copy",
      "zip">>

(***************************************************************************)
(* build(): one action per step                                            *)
(***************************************************************************)
Proc(tool, code) == [tool |-> tool, code |-> code]

Step(name) ==
    /\ pc = name
    /\ trace' = Append(trace, name)
    /\ UNCHANGED <<launcherVars, batchVars>>

Raise(e) ==
    /\ pc' = "failed"
    /\ error' = e

\* faulty variant: subprocess.call, whose exit status is ignored
CallIgnoringExit(code, next) ==
    /\ pc' = next
    /\ error' = error

\* subprocess.check_call: a non-zero exit raises CalledProcessError
CheckCall(code, next) ==
    IF code = 0
    THEN pc' = next /\ error' = error
    ELSE Raise("CalledProcessError")

EnsurePyinstaller ==
    /\ Step("ensure")
    /\ IF importable
       THEN /\ pc' = "clean"
            /\ UNCHANGED <<importable, procs, error>>
       ELSE \E code \in ExitCodes :
                /\ procs' = Append(procs, Proc("pip", code))
                /\ CheckCall(code, "clean")
                /\ importable' = (code = 0)
    /\ UNCHANGED <<fs, iconArg, command, archive, result, fs0>>

CleanStep ==
    /\ Step("clean")
    /\ LET r == CleanPreviousBuild(fs, dist_path, build_path, zip_path)
       IN  /\ fs' = r.fs
           /\ IF r.raised = None
              THEN pc' = "command" /\ error' = error
              ELSE Raise(r.raised)
    /\ UNCHANGED <<importable, iconArg, command, archive, result, procs,
                   fs0>>

CommandStep ==
    /\ Step("command")
    /\ command' = PyinstallerCommand(fs, dist_path, build_path,
                                     IconPathOf(iconArg))
    /\ pc' = "execute"
    /\ UNCHANGED <<fs, importable, iconArg, archive, result, error, procs,
                   fs0>>

ExecuteStep ==
    /\ Step("execute")
    /\ \E code \in ExitCodes :
        /\ procs' = Append(procs, Proc("PyInstaller", code))
        /\ CheckCall(code, "readme")
        /\ \E out \in IF code = 0 THEN PackagingOutputs
                      ELSE FailedPackagingOutputs :
            fs' = out @@ fs
    /\ UNCHANGED <<importable, iconArg, command, archive, result, fs0>>

ReadmeStep ==
    /\ Step("readme")
    /\ fs' = WritePortableReadme(fs, dist_folder)
    /\ pc' = "batch"
    /\ UNCHANGED <<importable, iconArg, command, archive, result, error,
                   procs, fs0>>

BatchStep ==
    /\ Step("batch")
    /\ fs' = WriteLauncherBatchFile(fs, dist_folder)
    /\ pc' = "copy"
    /\ UNCHANGED <<importable, iconArg, command, archive, result, error,
                   procs, fs0>>

CopyStep ==
    /\ Step("copy")
    /\ fs' = CopySupportFile(fs, dist_folder, logo_path)
    /\ pc' = "zip"
    /\ UNCHANGED <<importable, iconArg, command, archive, result, error,
                   procs, fs0>>

ZipStep ==
    /\ Step("zip")
    /\ archive' = CreateZip(fs, dist_folder)
    /\ fs' = WriteFile(fs, zip_path, "zip")
    /\ result' = zip_path
    /\ pc' = "done"
    /\ UNCHANGED <<importable, iconArg, command, error, procs, fs0>>

\* The bundle folder is a tree the packaging tool produced and the build
\* only adds to before it is archived: any tree of files and directories,
\* here up to MaxDepth levels deep
MaxDepth == 2
EntryNames == {"a.dll", "lib"}
BundleDirs == {dist_folder} \cup {d \in Below(fs, dist_folder) : IsDir(fs, d)}

CanAdd(p) ==
    /\ ~Exists(fs, p)
    /\ Len(RelativeTo(p, dist_folder)) <= MaxDepth

BundleAddFile ==
    /\ pc = "zip"
    /\ \E d \in BundleDirs, n \in EntryNames :
        /\ CanAdd(Join(d, n))
        /\ fs' = WriteFile(fs, Join(d, n), "file")
    /\ UNCHANGED <<pc, importable, iconArg, command, archive, result, error,
                   trace, procs, fs0>>
    /\ UNCHANGED <<launcherVars, batchVars>>

BundleAddDir ==
    /\ pc = "zip"
    /\ \E d \in BundleDirs, n \in EntryNames :
        /\ CanAdd(Join(d, n))
        /\ fs' = WriteFile(fs, Join(d, n), "dir")
    /\ UNCHANGED <<pc, importable, iconArg, command, archive, result, error,
                   trace, procs, fs0>>
    /\ UNCHANGED <<launcherVars, batchVars>>

\* build() has reached the archiver
ArchiverInit ==
    /\ fs = BaseTree @@ Dirs({dist_path, dist_folder, build_path})
    /\ pc = "zip"
    /\ importable = TRUE
    /\ iconArg = None
    /\ command = PyinstallerCommand(fs, dist_path, build_path, NoPath)
    /\ archive = <<>>
    /\ result = NoPath
    /\ error = None
    /\ trace = SubSeq(StepOrder, 1, Len(StepOrder) - 1)
    /\ procs = <<Proc("PyInstaller", 0)>>
    /\ fs0 = BaseTree

BuildInit ==
    /\ fs \in InitialFileSystems
    /\ pc = "ensure"
    /\ importable \in BOOLEAN
    /\ iconArg \in IconArgs
    /\ command = <<>>
    /\ archive = <<>>
    /\ result = NoPath
    /\ error = None
    /\ trace = <<>>
    /\ procs = <<>>
    /\ fs0 = fs


(***************************************************************************)
(* portable_launcher.py                                                    *)
(***************************************************************************)
LOG_FILE_NAME == "portable_launcher.log"
LOGS_DIR_NAME == "logs"

\* the directories a deployment can put the launcher in
ScriptDir == PORTABLE_DIR                     \* Path(__file__).resolve().parent
ExecutableDir == dist_folder                  \* Path(sys.executable).resolve().parent
MeipassDirs == {dist_folder, Join(dist_folder, "_internal")}

\* faulty variant: the extraction directory is used whenever it is present
ResolveBundleDirMeipassFirst(isFrozen, mei) ==
    IF mei # NoPath THEN mei
    ELSE IF isFrozen THEN ExecutableDir
    ELSE ScriptDir

ResolveBundleDir(isFrozen, mei) ==
    IF isFrozen
    THEN IF mei # NoPath THEN mei ELSE ExecutableDir
    ELSE ScriptDir

LogPathOf(bundle_dir) == bundle_dir \o <<LOGS_DIR_NAME, LOG_FILE_NAME>>

relative_candidates == <<<<"src", "ollama_ocr", "app.py">>, <<"app.py">>>>

\* the generator: for each relative candidate, first below the bundle
\* directory, then below its parent
CandidateAppPaths(bundle_dir) ==
    [i \in 1..(2 * Len(relative_candidates)) |->
        (IF i % 2 = 1 THEN bundle_dir ELSE Parent(bundle_dir))
            \o relative_candidates[(i + 1) \div 2]]

Located(path, e) == [path |-> path, raised |-> e]

RECURSIVE FirstExisting(_, _)
FirstExisting(cands, files) ==
    IF cands = <<>> THEN Located(NoPath, "FileNotFoundError")
    ELSE IF Head(cands) \in files THEN Located(Head(cands), None)
    ELSE FirstExisting(Tail(cands), files)

\* faulty variant: the candidates are examined in the reverse order
LocateLastExisting(bundle_dir, files) ==
    LET c == CandidateAppPaths(bundle_dir)
    IN  FirstExisting([i \in 1..Len(c) |-> c[Len(c) + 1 - i]], files)

LocateStreamlitApp(bundle_dir, files) ==
    FirstExisting(CandidateAppPaths(bundle_dir), files)

StreamlitCommand(app_path) ==
    <<SysExecutable, Lit("-m"), Lit("streamlit"), Lit("run"),
      PathTok(app_path)>>

\* the launch environment variables and the values the caller may give them
Undefined == "Undefined"
EnvVars == {"HEADLESS", "USAGE_STATS", "UTF8_MODE"}
LauncherDefault ==
    [v \in EnvVars |-> IF v = "UTF8_MODE" THEN "1" ELSE "false"]

\* faulty variant: defaults are set for the variables the caller left out
LaunchEnvWithDefaults(e) ==
    [v \in EnvVars |-> IF e[v] = Undefined THEN LauncherDefault[v] ELSE e[v]]

\* subprocess.run(command, check=True, cwd=...) passes no env: the child
\* inherits the launcher's environment as it is
LaunchEnv(e) == e

\* the exceptions the launcher can meet; all but KeyboardInterrupt derive
\* from Exception
ExceptionClasses == {"FileNotFoundError", "CalledProcessError", "OSError",
                     "PermissionError"}
MainSteps == {"main", "locate", "launch"}

\* faulty variant: the handler only expects a missing entry script
CatchesNotFoundOnly(e, at) == at \in MainSteps /\ e = "FileNotFoundError"

\* "try: main() / except Exception:" under "if __name__ == '__main__'"
Catches(e, at) == at \in MainSteps /\ e \in ExceptionClasses

\* exit status of an interpreter that dies of an uncaught KeyboardInterrupt
\* (platform dependent)
InterruptExitCodes == {130, -1073741510}
\* outcomes of the runner subprocess as subprocess.run sees them
RunOutcomes == {"exit 0", "CalledProcessError", "OSError",
                "KeyboardInterrupt"}

LogRec(level, event, e) == [level |-> level, event |-> event, exc |-> e]
Printed(kind, path) == [kind |-> kind, names |-> path]

(***************************************************************************)
(* The launcher process: import-time set-up, main(), the top-level handler *)
(***************************************************************************)
At(position) ==
    /\ lpc = position
    /\ UNCHANGED <<buildVars, batchVars>>

RaiseIn(e, at) ==
    /\ exc' = e
    /\ raisedAt' = at
    /\ lpc' = "unwinding"

\* BUNDLE_DIR = resolve_bundle_dir()
ResolveBundle ==
    /\ At("resolve")
    /\ bundleDir' = ResolveBundleDir(frozen, meipass)
    /\ lpc' = "configure"
    /\ UNCHANGED <<frozen, meipass, lfs, env, callerEnv, logPath, logLines,
                   appPath, runnerCalls, exc, raisedAt, caught, stderrOut,
                   exitStatus>>

\* LOGGER, LOG_PATH = _configure_logger(BUNDLE_DIR): mkdir and the open of
\* the log file succeed, or one of them raises
ConfigureLogger ==
    /\ At("configure")
    /\ \/ /\ logPath' = LogPathOf(bundleDir)
          /\ lfs' = lfs \cup {LogPathOf(bundleDir)}
          /\ lpc' = "main"
          /\ UNCHANGED <<exc, raisedAt>>
       \/ /\ RaiseIn("PermissionError", "configure")
          /\ UNCHANGED <<logPath, lfs>>
    /\ UNCHANGED <<frozen, meipass, env, callerEnv, bundleDir, logLines,
                   appPath, runnerCalls, caught, stderrOut, exitStatus>>

\* main(): LOGGER.info("Starting portable launcher ...")
MainStart ==
    /\ At("main")
    /\ logLines' = Append(logLines, LogRec("INFO", "starting", None))
    /\ lpc' = "locate"
    /\ UNCHANGED <<frozen, meipass, lfs, env, callerEnv, bundleDir, logPath,
                   appPath, runnerCalls, exc, raisedAt, caught, stderrOut,
                   exitStatus>>

\* app_path = _locate_streamlit_app(BUNDLE_DIR, LOGGER)
LocateApp ==
    /\ At("locate")
    /\ LET r == LocateStreamlitApp(bundleDir, lfs)
       IN  IF r.raised = None
           THEN /\ appPath' = r.path
                /\ logLines' = Append(logLines, LogRec("INFO", "found", None))
                /\ lpc' = "launch"
                /\ UNCHANGED <<exc, raisedAt>>
           ELSE /\ RaiseIn(r.raised, "locate")
                /\ UNCHANGED <<appPath, logLines>>
    /\ UNCHANGED <<frozen, meipass, lfs, env, callerEnv, bundleDir, logPath,
                   runnerCalls, caught, stderrOut, exitStatus>>

\* _launch_streamlit(app_path, LOGGER); a normal return ends the process
LaunchStreamlit ==
    /\ At("launch")
    /\ logLines' = Append(logLines, LogRec("INFO", "executing", None))
    /\ runnerCalls' = Append(runnerCalls,
            [command |-> StreamlitCommand(appPath),
             env |-> LaunchEnv(env),
             cwd |-> Parent(appPath)])
    /\ \E o \in RunOutcomes :
        IF o = "exit 0"
        THEN /\ lpc' = "exited"
             /\ exitStatus' = Some(0)
             /\ UNCHANGED <<exc, raisedAt>>
        ELSE /\ RaiseIn(o, "launch")
             /\ UNCHANGED exitStatus
    /\ UNCHANGED <<frozen, meipass, lfs, env, callerEnv, bundleDir, logPath,
                   appPath, caught, stderrOut>>

\* except Exception: LOGGER.exception(...); print(message, file=sys.stderr);
\* raise SystemExit(1)
TopLevelExcept ==
    /\ At("unwinding")
    /\ Catches(exc, raisedAt)
    /\ caught' = caught + 1
    /\ logLines' = Append(logLines, LogRec("ERROR", "failed", exc))
    /\ stderrOut' = Append(stderrOut, Printed("message", logPath))
    /\ exitStatus' = Some(1)
    /\ lpc' = "exited"
    /\ UNCHANGED <<frozen, meipass, lfs, env, callerEnv, bundleDir, logPath,
                   appPath, runnerCalls, exc, raisedAt>>

\* no handler applies: the interpreter prints the traceback and exits
Uncaught ==
    /\ At("unwinding")
    /\ ~Catches(exc, raisedAt)
    /\ stderrOut' = Append(stderrOut, Printed("traceback", NoPath))
    /\ \E code \in IF exc = "KeyboardInterrupt" THEN InterruptExitCodes
                   ELSE {1} :
        exitStatus' = Some(code)
    /\ lpc' = "exited"
    /\ UNCHANGED <<frozen, meipass, lfs, env, callerEnv, bundleDir, logPath,
                   logLines, appPath, runnerCalls, exc, raisedAt, caught>>

\* the files that can matter to the launcher: every candidate of every
\* deployment, and the application script inside the packaged data folder
PackagedAppPath(mei) == mei \o <<AddData.dest, "app.py">>
LauncherFiles ==
    UNION {{CandidateAppPaths(b)[i] : i \in 1..4} :
              b \in {ScriptDir, ExecutableDir} \cup MeipassDirs}
    \cup {PackagedAppPath(m) : m \in MeipassDirs}

MaxFiles == 2

LauncherInit ==
    /\ lpc = "resolve"
    /\ frozen \in BOOLEAN
    /\ meipass \in {NoPath} \cup MeipassDirs
    /\ lfs \in {F \in SUBSET LauncherFiles : Cardinality(F) <= MaxFiles}
    /\ callerEnv \in [EnvVars -> {Undefined, "caller"}]
    /\ env = callerEnv
    /\ bundleDir = NoPath
    /\ logPath = NoPath
    /\ logLines = <<>>
    /\ appPath = NoPath
    /\ runnerCalls = <<>>
    /\ exc = None
    /\ raisedAt = None
    /\ caught = 0
    /\ stderrOut = <<>>
    /\ exitStatus = NoNumber

LauncherNext ==
    \/ ResolveBundle
    \/ ConfigureLogger
    \/ MainStart
    \/ LocateApp
    \/ LaunchStreamlit
    \/ TopLevelExcept
    \/ Uncaught

(***************************************************************************)
(* The generated batch scripts, as the commands cmd.exe executes           *)
(*   arg:   the operand of the command                                     *)
(*   fwd:   whether the script's arguments are passed on (percent-star)  *)
(*   redir: the file stdout is redirected to (NoPath: the console)         *)
(*   merge: whether stderr is merged into stdout (2>&1)                    *)
(*   skip:  for a block "if": the number of commands in the block          *)
(***************************************************************************)
Cmd(op, arg, fwd, redir, merge, skip) ==
    [op |-> op, arg |-> arg, fwd |-> fwd, redir |-> redir, merge |-> merge,
     skip |-> skip]
Plain(op, arg) == Cmd(op, arg, FALSE, NoPath, FALSE, 0)

\* build_portable_windows.py, _write_launcher_batch: the dedented template
PortableLauncherBatch(name) ==
    <<Plain("echo off", ""),
      Plain("setlocal", ""),
      Plain("cd", "%~dp0"),
      Plain("if not exist mkdir", "logs"),
      Plain("echo", "Starting Ollama OCR Portable..."),
      Plain("run", name \o ".exe"),
      Plain("endlocal", "")>>

\* msi/create.py, _write_launcher_batch(executable, launcher_path, log_path)
MsiLauncherBatch(executable, log_path) ==
    <<Plain("echo off", ""),
      Plain("setlocal", ""),
      Plain("set", "APP_EXECUTABLE"),
      Plain("set", "LOG_FILE"),
      Cmd("echo", "Launching", FALSE, log_path, FALSE, 0),
      Cmd("run", executable, TRUE, log_path, TRUE, 0),
      Plain("set EXIT_CODE", "%ERRORLEVEL%"),
      Cmd("if EXIT_CODE neq 0", "", FALSE, NoPath, FALSE, 3),
      Plain("echo", "Application exited with code"),
      Plain("echo", "Log file:"),
      Plain("if errorlevel 1 pause", ""),
      Plain("exit /b", "%EXIT_CODE%")>>

MaxArgs == 2
ArgWords == {"--port", "8502"}
ArgLists == UNION {[1..n -> ArgWords] : n \in 0..MaxArgs}
ExeExitCodes == {0, 1, 2, -1}
LogPaths == {<<"logs", "launcher.log">>, <<"launcher.log">>}

\* cmd.exe opens the redirection target before it runs the command; the
\* open fails when the directory of the target does not exist
CanOpen(dirs, redir) ==
    redir = NoPath \/ Len(redir) = 1 \/ redir[1] \in dirs

Current == script[bpc]
Running(ops) ==
    /\ bpc \in 1..Len(script)
    /\ Current.op \in ops
    /\ UNCHANGED <<buildVars, launcherVars>>
Advance == bpc' = bpc + 1

\* @echo off, setlocal, endlocal, cd /d, set VAR=...: nothing observable
ExecPlain ==
    /\ Running({"echo off", "setlocal", "endlocal", "cd", "set"})
    /\ Advance
    /\ UNCHANGED <<script, scriptKind, bargs, bdirs, exeRuns, exeExit,
                   errorlevel, exitCodeVar, paused, console>>

\* if not exist logs mkdir logs
ExecMkdir ==
    /\ Running({"if not exist mkdir"})
    /\ bdirs' = bdirs \cup {Current.arg}
    /\ Advance
    /\ UNCHANGED <<script, scriptKind, bargs, exeRuns, exeExit, errorlevel,
                   exitCodeVar, paused, console>>

\* echo text [> file]
ExecEcho ==
    /\ Running({"echo"})
    /\ IF CanOpen(bdirs, Current.redir)
       THEN /\ console' = IF Current.redir = NoPath
                          THEN Append(console, Current.arg)
                          ELSE console
            /\ UNCHANGED errorlevel
       ELSE /\ errorlevel' = 1
            /\ UNCHANGED console
    /\ Advance
    /\ UNCHANGED <<script, scriptKind, bargs, bdirs, exeRuns, exeExit,
                   exitCodeVar, paused>>

\* [call] "executable" [arguments] [>> file 2>&1]
ExecRun ==
    /\ Running({"run"})
    /\ IF CanOpen(bdirs, Current.redir)
       THEN /\ exeRuns' = Append(exeRuns,
                    [args |-> IF Current.fwd THEN bargs ELSE <<>>,
                     redir |-> Current.redir,
                     merge |-> Current.merge,
                     logsDir |-> LOGS_DIR_NAME \in bdirs])
            /\ errorlevel' = exeExit
       ELSE /\ errorlevel' = 1
            /\ UNCHANGED exeRuns
    /\ Advance
    /\ UNCHANGED <<script, scriptKind, bargs, bdirs, exeExit, exitCodeVar,
                   paused, console>>

\* set "EXIT_CODE=%ERRORLEVEL%"
ExecSetExitCode ==
    /\ Running({"set EXIT_CODE"})
    /\ exitCodeVar' = Some(errorlevel)
    /\ Advance
    /\ UNCHANGED <<script, scriptKind, bargs, bdirs, exeRuns, exeExit,
                   errorlevel, paused, console>>

\* if %EXIT_CODE% neq 0 ( ... ): the block is skipped when the code is 0
ExecIfExitCode ==
    /\ Running({"if EXIT_CODE neq 0"})
    /\ bpc' = IF exitCodeVar # Some(0) THEN bpc + 1
              ELSE bpc + 1 + Current.skip
    /\ UNCHANGED <<script, scriptKind, bargs, bdirs, exeRuns, exeExit,
                   errorlevel, exitCodeVar, paused, console>>

\* if errorlevel 1 pause: true when ERRORLEVEL is 1 or greater
ExecIfErrorlevelPause ==
    /\ Running({"if errorlevel 1 pause"})
    /\ paused' = (paused \/ errorlevel >= 1)
    /\ Advance
    /\ UNCHANGED <<script, scriptKind, bargs, bdirs, exeRuns, exeExit,
                   errorlevel, exitCodeVar, console>>

\* exit /b %EXIT_CODE%
ExecExit ==
    /\ Running({"exit /b"})
    /\ errorlevel' = exitCodeVar[1]
    /\ bpc' = Len(script) + 1
    /\ UNCHANGED <<script, scriptKind, bargs, bdirs, exeRuns, exeExit,
                   exitCodeVar, paused, console>>

BatchFinished == bpc = Len(script) + 1

BatchInit ==
    /\ scriptKind \in {"portable", "msi"}
    /\ script \in IF scriptKind = "portable"
                  THEN {PortableLauncherBatch(DIST_NAME)}
                  ELSE {MsiLauncherBatch(DIST_NAME \o ".exe", l) :
                            l \in LogPaths}
    /\ bargs \in ArgLists
    /\ bpc = 1
    /\ bdirs \in {{}, {LOGS_DIR_NAME}}
    /\ exeRuns = <<>>
    /\ exeExit \in ExeExitCodes
    /\ errorlevel = 0
    /\ exitCodeVar = NoNumber
    /\ paused = FALSE
    /\ console = <<>>

BatchNext ==
    \/ ExecPlain
    \/ ExecMkdir
    \/ ExecEcho
    \/ ExecRun
    \/ ExecSetExitCode
    \/ ExecIfExitCode
    \/ ExecIfErrorlevelPause
    \/ ExecExit

(***************************************************************************)
(* Specifications.  The three programs run as separate processes; each     *)
(* specification runs one of them and holds the others at rest.            *)
(***************************************************************************)
BuildAtRest ==
    /\ fs = BaseTree
    /\ pc = "done"
    /\ importable = TRUE
    /\ iconArg = None
    /\ command = <<>>
    /\ archive = <<>>
    /\ result = NoPath
    /\ error = None
    /\ trace = <<>>
    /\ procs = <<>>
    /\ fs0 = fs

LauncherAtRest ==
    /\ lpc = "exited"
    /\ frozen = FALSE
    /\ meipass = NoPath
    /\ lfs = {}
    /\ callerEnv = [v \in EnvVars |-> Undefined]
    /\ env = callerEnv
    /\ bundleDir = NoPath
    /\ logPath = NoPath
    /\ logLines = <<>>
    /\ appPath = NoPath
    /\ runnerCalls = <<>>
    /\ exc = None
    /\ raisedAt = None
    /\ caught = 0
    /\ stderrOut = <<>>
    /\ exitStatus = NoNumber

BatchAtRest ==
    /\ scriptKind = "portable"
    /\ script = <<>>
    /\ bargs = <<>>
    /\ bpc = 1
    /\ bdirs = {}
    /\ exeRuns = <<>>
    /\ exeExit = 0
    /\ errorlevel = 0
    /\ exitCodeVar = NoNumber
    /\ paused = FALSE
    /\ console = <<>>

Init == BuildInit /\ LauncherAtRest /\ BatchAtRest
Next ==
    \/ EnsurePyinstaller
    \/ CleanStep
    \/ CommandStep
    \/ ExecuteStep
    \/ ReadmeStep
    \/ BatchStep
    \/ CopyStep
    \/ ZipStep
Spec == Init /\ [][Next]_vars

ArchiverSpecInit == ArchiverInit /\ LauncherAtRest /\ BatchAtRest
ArchiverNext ==
    \/ BundleAddFile
    \/ BundleAddDir
    \/ ZipStep
ArchiverSpec == ArchiverSpecInit /\ [][ArchiverNext]_vars

LauncherSpecInit == LauncherInit /\ BuildAtRest /\ BatchAtRest
LauncherSpec == LauncherSpecInit /\ [][LauncherNext]_vars

BatchSpecInit == BatchInit /\ BuildAtRest /\ LauncherAtRest
BatchSpec == BatchSpecInit /\ [][BatchNext]_vars

(***************************************************************************)
(* Properties of the build pipeline                                        *)
(***************************************************************************)
Last(q) == q[Len(q)]
HasToken(cmd, t) == \E i \in 1..Len(cmd) : cmd[i] = t
IconSupplied == iconArg \notin {None, ""}
IconOnDisk == IconSupplied /\ <<iconArg>> \in DOMAIN fs

\* C1: the command _pyinstaller_command returns ends with the launcher
\* script path, and holds "--icon" (followed by the icon path) if and only
\* if the supplied icon path exists on disk; a None or a non-existent icon
\* path ("missing.ico") gives a command without "--icon".
C1_CommandEndsWithScriptIconIffExists ==
    pc = "execute" =>
        /\ Last(command) = PathTok(launcher_path)
        /\ HasToken(command, Lit("--icon")) <=> IconOnDisk
        /\ \A i \in 1..Len(command) :
            command[i] = Lit("--icon") =>
                /\ i < Len(command)
                /\ command[i + 1] = PathTok(<<iconArg>>)
        /\ iconArg \in {None, "missing.ico"} =>
                ~HasToken(command, Lit("--icon"))

C1_Witness ==
    /\ pc = "execute"
    /\ iconArg = "app.ico"
    /\ IconOnDisk
    /\ HasToken(command, Lit("--icon"))
    /\ Last(command) = PathTok(launcher_path)

\* the starting states the cleaner is specified for: dist and build are
\* directories (with any contents) or absent, the archive is a regular
\* file or absent
Cleanable(f) ==
    /\ \A d \in {dist_path, build_path} : Exists(f, d) => IsDir(f, d)
    /\ Exists(f, zip_path) => IsFile(f, zip_path)
IsEmptyDir(f, d) == IsDir(f, d) /\ Below(f, d) = {}
CleanedAgain == CleanPreviousBuild(fs, dist_path, build_path, zip_path)

\* C2 as claimed: the cleaner is idempotent and leaves the dist and build
\* directories existing and empty and the archive absent, after one run and
\* after two; the second run raises no error.
C2_CleanerLeavesEmptyDirs ==
    (pc = "command" /\ Cleanable(fs0)) =>
        /\ IsEmptyDir(fs, dist_path)
        /\ IsEmptyDir(fs, build_path)
        /\ ~Exists(fs, zip_path)
        /\ CleanedAgain.raised = None
        /\ CleanedAgain.fs = fs

\* C2 as amended: from a starting state in which dist and build are
\* directories or absent and the archive is a regular file or absent, the
\* cleaner raises no error and leaves dist, build and the archive all
\* absent (nothing is recreated); a second run raises no error and changes
\* nothing.
C2_CleanerIdempotentAllAbsent ==
    /\ (pc = "clean" /\ Cleanable(fs)) => CleanedAgain.raised = None
    /\ (pc = "command" /\ Cleanable(fs0)) =>
        /\ \A p \in {dist_path, build_path, zip_path} :
            /\ ~Exists(fs, p)
            /\ Below(fs, p) = {}
        /\ \A p \in DOMAIN fs0 :
            Exists(fs, p) <=>
                \A r \in {dist_path, build_path, zip_path} :
                    p # r /\ ~IsUnder(p, r)
        /\ CleanedAgain.raised = None
        /\ CleanedAgain.fs = fs

C2_Witness ==
    /\ pc = "command"
    /\ Below(fs0, dist_path) # {}
    /\ Below(fs0, build_path) # {}
    /\ IsFile(fs0, zip_path)
    /\ \A p \in {dist_path, build_path, zip_path} : ~Exists(fs, p)

BundleFiles == {p \in Below(fs, dist_folder) : IsFile(fs, p)}
BundleSubdirs == {p \in Below(fs, dist_folder) : IsDir(fs, p)}
EntriesFor(p, isdir) ==
    {i \in 1..Len(archive) :
        /\ archive[i].name = <<DIST_NAME>> \o RelativeTo(p, dist_folder)
        /\ archive[i].isdir = isdir}

\* C3 as claimed: for a bundle tree with N regular files the archive has
\* exactly N entries, one per file, named relative to the bundle
\* directory's parent.
C3_ArchiveHasExactlyNEntries ==
    pc = "done" =>
        /\ Len(archive) = Cardinality(BundleFiles)
        /\ \A p \in BundleFiles : Cardinality(EntriesFor(p, FALSE)) = 1

\* C3 as amended: the archive has exactly one entry per regular file (N
\* file entries) and, besides, one directory entry per subdirectory of the
\* bundle directory, so N + D entries in all; every entry is named relative
\* to the bundle directory's parent and so starts with the bundle's
\* top-level folder name.
C3_ArchiveOneEntryPerFileAndSubdir ==
    pc = "done" =>
        /\ \A p \in BundleFiles : Cardinality(EntriesFor(p, FALSE)) = 1
        /\ \A p \in BundleSubdirs : Cardinality(EntriesFor(p, TRUE)) = 1
        /\ Len(archive) =
                Cardinality(BundleFiles) + Cardinality(BundleSubdirs)
        /\ Cardinality({i \in 1..Len(archive) : ~archive[i].isdir}) =
                Cardinality(BundleFiles)
        /\ \A i \in 1..Len(archive) :
            /\ Len(archive[i].name) >= 2
            /\ archive[i].name[1] = DIST_NAME

C3_Witness ==
    /\ pc = "done"
    /\ \E p \in BundleFiles : Len(RelativeTo(p, dist_folder)) = 2
    /\ \E p \in BundleFiles : Len(RelativeTo(p, dist_folder)) = 1
    /\ Cardinality(BundleSubdirs) >= 2
    /\ Len(archive) > Cardinality(BundleFiles)

GeneratedFiles ==
    {Join(dist_folder, "README_portable.txt"),
     Join(dist_folder, "Start Ollama OCR.bat"),
     zip_path}
FailedProcs == {i \in 1..Len(procs) : procs[i].code # 0}

\* C9: build() runs its steps in the fixed order, each only after the
\* previous one completed; a non-zero exit of the installer or of the
\* packaging subprocess leaves build() as an error, the subprocess is not
\* run again and no later step runs: after a failed packaging run there is
\* no README, no batch script and no archive, and no archive path is
\* returned.
C9_LinearOrderFailureIsFatal ==
    /\ Len(trace) <= Len(StepOrder)
    /\ \A i \in 1..Len(trace) : trace[i] = StepOrder[i]
    /\ pc \notin {"done", "failed"} => pc = StepOrder[Len(trace) + 1]
    /\ pc = "done" => (trace = StepOrder /\ error = None /\ result = zip_path)
    /\ pc # "done" => (result = NoPath /\ archive = <<>>)
    /\ Cardinality({i \in 1..Len(procs) : procs[i].tool = "pip"}) <= 1
    /\ Cardinality({i \in 1..Len(procs) : procs[i].tool = "PyInstaller"}) <= 1
    /\ FailedProcs # {} =>
        /\ FailedProcs = {Len(procs)}
        /\ pc = "failed"
        /\ error = "CalledProcessError"
        /\ Last(trace) = (IF Last(procs).tool = "pip" THEN "ensure"
                          ELSE "execute")
        /\ Last(procs).tool = "PyInstaller" =>
                \A p \in GeneratedFiles : ~Exists(fs, p)
        /\ Last(procs).tool = "pip" => fs = fs0
    /\ pc = "failed" => ~ENABLED Next

C9_Witness ==
    /\ pc = "failed"
    /\ Len(procs) = 2
    /\ Last(procs) = Proc("PyInstaller", 1)
    /\ trace = SubSeq(StepOrder, 1, 4)
    /\ IsFile(fs0, zip_path)
    /\ IsFile(fs0, Join(dist_folder, "Start Ollama OCR.bat"))
    /\ \A p \in GeneratedFiles : ~Exists(fs, p)

(***************************************************************************)
(* Properties of the launcher                                              *)
(***************************************************************************)
\* _locate_streamlit_app has returned or raised
LocateDone ==
    \/ lpc = "launch"
    \/ raisedAt \in {"locate", "launch"}
    \/ runnerCalls # <<>>
ExpectedCandidates ==
    <<bundleDir \o <<"src", "ollama_ocr", "app.py">>,
      Parent(bundleDir) \o <<"src", "ollama_ocr", "app.py">>,
      Join(bundleDir, "app.py"),
      Join(Parent(bundleDir), "app.py")>>
ExistingCandidates == {i \in 1..4 : ExpectedCandidates[i] \in lfs}
FirstCandidate ==
    ExpectedCandidates[CHOOSE i \in ExistingCandidates :
                            \A j \in ExistingCandidates : i <= j]
NotFoundRaised == exc = "FileNotFoundError" /\ raisedAt = "locate"

\* C4: _locate_streamlit_app examines its candidates in a fixed order and
\* returns the first one that exists; it raises FileNotFoundError if and
\* only if none exists, and no other error in that case.
C4_FirstExistingCandidateOrNotFound ==
    LocateDone =>
        /\ ExistingCandidates = {} <=> NotFoundRaised
        /\ ExistingCandidates = {} => appPath = NoPath
        /\ ExistingCandidates # {} => appPath = FirstCandidate
        /\ raisedAt = "locate" => exc = "FileNotFoundError"

C4_Witness ==
    /\ lpc = "exited"
    /\ NotFoundRaised
    /\ lfs # {}
    /\ ExistingCandidates = {}
    /\ appPath = NoPath

\* C5: when the launcher runs from the bundle the build pipeline produced
\* (the application directory embedded under the data-folder name of the
\* --add-data mapping), LocateApp finds the application script inside that
\* data folder and goes on to Run instead of failing with "not found".
C5_PackagedDataFolderIsLocated ==
    ( /\ frozen
      /\ meipass # NoPath
      /\ PackagedAppPath(meipass) \in lfs
      /\ LocateDone ) =>
        /\ ~NotFoundRaised
        /\ appPath = PackagedAppPath(meipass)

Logged(e) ==
    /\ logLines # <<>>
    /\ Last(logLines) = LogRec("ERROR", "failed", e)
ReportedWithLogPath ==
    /\ logPath = LogPathOf(bundleDir)
    /\ stderrOut = <<Printed("message", logPath)>>
HandledOnce ==
    /\ caught = 1
    /\ Logged(exc)
    /\ ReportedWithLogPath
    /\ exitStatus = Some(1)
    /\ Len(runnerCalls) <= 1

\* C6 as claimed: any exception raised during launch, also one raised while
\* the bundle directory is resolved and the log file is set up, is caught
\* exactly once at the top level, logged to the bundle-local log file,
\* reported on the terminal with the log file path, and the process exits
\* with status 1; nothing escapes unlogged, nothing is retried.
C6_EveryExceptionHandledOnce ==
    (lpc = "exited" /\ exc \in ExceptionClasses) => HandledOnce

\* C6 as amended: any exception derived from Exception that is raised
\* inside main() (missing entry script, non-zero exit of the launched
\* application, any other runtime error) is caught exactly once at the top
\* level, logged with its detail to the bundle-local log file, reported on
\* the terminal with the log file path, and the process exits with status
\* 1, nothing being retried.  An exception raised before main(), while the
\* bundle directory is resolved and the log file is set up at import time,
\* is outside the handler: it is not caught and not logged, and the
\* interpreter ends the process with a traceback and a non-zero status.
C6_MainExceptionsHandledOnce ==
    /\ caught <= 1
    /\ (lpc = "exited" /\ exc \in ExceptionClasses /\ raisedAt \in MainSteps)
            => HandledOnce
    /\ (lpc = "exited" /\ exc # None /\ raisedAt \notin MainSteps) =>
        /\ caught = 0
        /\ logLines = <<>>
        /\ stderrOut = <<Printed("traceback", NoPath)>>
        /\ exitStatus \notin {NoNumber, Some(0)}
    /\ (lpc = "exited" /\ exitStatus = Some(0)) => exc = None

C6_Witness ==
    /\ lpc = "exited"
    /\ exc = "CalledProcessError"
    /\ raisedAt = "launch"
    /\ HandledOnce

RunnerCall == runnerCalls[1]
BundleHasAppPy == Join(bundleDir, "app.py") \in lfs
RunnerGetsAppPy ==
    /\ Len(runnerCalls) = 1
    /\ Len(RunnerCall.command) = 5
    /\ SubSeq(RunnerCall.command, 1, 4) =
            <<SysExecutable, Lit("-m"), Lit("streamlit"), Lit("run")>>
    /\ RunnerCall.command[5] = PathTok(Join(bundleDir, "app.py"))
\* no src/ollama_ocr/app.py candidate exists, so that app.py in the bundle
\* directory is the first existing candidate
AppPyIsFirst == BundleHasAppPy /\ ExistingCandidates \cap {1, 2} = {}

\* C7 as claimed: when the bundle directory contains app.py, each of the
\* three launch environment variables is defined before the runner is
\* invoked (the caller's value if the caller defined it, the launcher's
\* default otherwise), and the runner gets app.py's absolute path as its
\* sole positional argument.
C7_EnvDefaultsSetBeforeRun ==
    (runnerCalls # <<>> /\ AppPyIsFirst) =>
        /\ \A v \in EnvVars :
            RunnerCall.env[v] = (IF callerEnv[v] # Undefined
                                 THEN callerEnv[v] ELSE LauncherDefault[v])
        /\ RunnerGetsAppPy

\* C7 as amended: when the bundle directory contains app.py (and no
\* src/ollama_ocr/app.py candidate precedes it), the launcher leaves the
\* environment as the caller gave it: each of the three variables keeps the
\* caller's value if the caller defined it and otherwise stays undefined (no
\* default is set); the runner is invoked once, with that environment and
\* with app.py's absolute path as its sole positional argument.
C7_EnvUntouchedRunnerGetsAppPy ==
    /\ env = callerEnv
    /\ runnerCalls # <<>> =>
        /\ RunnerCall.env = callerEnv
        /\ RunnerCall.cwd = Parent(appPath)
        /\ AppPyIsFirst => RunnerGetsAppPy

C7_Witness ==
    /\ runnerCalls # <<>>
    /\ AppPyIsFirst
    /\ RunnerGetsAppPy
    /\ \E v \in EnvVars : RunnerCall.env[v] = Undefined
    /\ \E v \in EnvVars : RunnerCall.env[v] = "caller"

\* C10: resolve_bundle_dir returns the extraction directory when running
\* as a packaged executable with the attribute present, the executable's
\* own directory when packaged without it, and the launcher script's own
\* directory when running from source, even if the attribute is present.
C10_BundleDirPerDeployment ==
    lpc # "resolve" =>
        /\ (frozen /\ meipass # NoPath) => bundleDir = meipass
        /\ (frozen /\ meipass = NoPath) => bundleDir = ExecutableDir
        /\ ~frozen => bundleDir = ScriptDir

C10_Witness ==
    /\ lpc = "configure"
    /\ ~frozen
    /\ meipass # NoPath
    /\ bundleDir = ScriptDir

(***************************************************************************)
(* Properties of the launcher batch script                                 *)
(***************************************************************************)
\* C8: the batch script the build pipeline writes first ensures the logs
\* directory exists, then runs the executable with all the script's
\* arguments forwarded and stdout/stderr redirected to a log file, captures
\* the exit code, and pauses if and only if that exit code is non-zero.
C8_PortableBatchForwardsLogsAndPauses ==
    (scriptKind = "portable" /\ script # <<>> /\ BatchFinished) =>
        /\ LOGS_DIR_NAME \in bdirs
        /\ Len(exeRuns) = 1
        /\ exeRuns[1].logsDir
        /\ exeRuns[1].args = bargs
        /\ exeRuns[1].redir # NoPath
        /\ exeRuns[1].merge
        /\ exitCodeVar = Some(exeExit)
        /\ paused <=> exeExit # 0

====
